---------------------------- MODULE Spec2Model ----------------------------
(***************************************************************************)
(* A model of the S3 Vectors pipeline of src/2_AWS_Vector_Store/main.py:   *)
(* the index manager (create_index_if_needed), the batched upload          *)
(* (upload_vectors) and the nearest-neighbour query (search), each run     *)
(* against a model of the vector bucket the boto3 client talks to.         *)
(*                                                                         *)
(* Every backend call is one step.  A backend call either succeeds or      *)
(* raises; what it raises is a botocore ClientError (an error response of  *)
(* the service) or another exception (a BotoCoreError such as a connection *)
(* or parameter-validation error), and the code tells the two apart.       *)
(***************************************************************************)
EXTENDS Integers, Sequences, FiniteSets, TLC

VARIABLES
    indexes,    \* the bucket: index name -> [dimension, distanceMetric, vectors]
    hashseed,   \* the process's string-hash randomisation (PYTHONHASHSEED)
    frame,      \* the locals of main and the stage it is at, in a pipeline run
    calls,      \* the backend calls made so far, in order, each with its outcome
    pc,         \* the position of the running function, "idle" between calls
    fn,         \* the running (or last finished) function
    args,       \* its arguments
    loc,        \* its local variables
    ret,        \* how the last function ended: its value or what it raised
    invs        \* the finished invocations, in order

vars == <<indexes, hashseed, frame, calls, pc, fn, args, loc, ret, invs>>

-----------------------------------------------------------------------------
(* Bounds of the model *)

\* Largest number of full batches an upload input holds
MaxFullBatches == 2
\* Function invocations per behaviour of the index manager
MaxInvocations == 2
\* Largest top_k a search asks for
MaxTopK == 3
\* Largest distance the backend reports, in tenths (cosine distance <= 2.0)
MaxDist == 20
\* Distinct chunk texts an upload input cycles through
NumTexts == 3

(* Program constants *)

\* batch_size = 400
batch_size == 400
\* the literal 1.0 of the similarity conversion, in tenths
One == 10
\* the modulus of the key's bounded hash
HashMod == 100000

Names == {"test-index", "other-index"}
Dims == {2, 3}

Min(a, b) == IF a <= b THEN a ELSE b
Max(a, b) == IF a >= b THEN a ELSE b
Abs(a) == IF a < 0 THEN 0 - a ELSE a

-----------------------------------------------------------------------------
(* The vector bucket *)

\* An index holds a set of records [key, data, metadata], one per key.
NewIndex(dimension, metric) ==
    [dimension |-> dimension, distanceMetric |-> metric, vectors |-> {}]

\* Every content of the bucket before the program touches it: each name absent
\* or an empty index of some dimension.
Buckets ==
    UNION {[S -> {NewIndex(d, "cosine") : d \in Dims}] : S \in SUBSET Names}

\* One entry of the call log: the operation, its indexName, the dimension (of
\* create_index) or topK (of query_vectors) it passes, the vectors it writes,
\* what the service answered, and whether it succeeded.
Call(op, name, number, vectors, response, outcome) ==
    [op |-> op, indexName |-> name, number |-> number,
     vectors |-> vectors, response |-> response, outcome |-> outcome]

\* The failures of a backend call, and all its outcomes
Failures == {"ClientError", "OtherError"}
Outcomes == {"ok"} \cup Failures

\* What a put_vectors call may answer: the service refuses a write to an index
\* that does not exist, and may fail any other write.
PutOutcomes(name) == IF name \in DOMAIN indexes THEN Outcomes ELSE Failures

\* The vectors of an index after a successful put: a record replaces the one
\* stored under the same key, and of two records of one batch with the same
\* key the later one stays.
StoredAfterPut(stored, batch) ==
    LET n == Len(batch)
        keys == {batch[j].key : j \in 1..n}
        kept == IF Cardinality(keys) = n
                THEN {batch[j] : j \in 1..n}
                ELSE {batch[j] : j \in {j \in 1..n :
                         \A l \in (j + 1)..n : batch[l].key # batch[j].key}}
    IN {r \in stored : r.key \notin keys} \cup kept

-----------------------------------------------------------------------------
(* Calls and returns *)

Returned(value) == [kind |-> "return", value |-> value]
Raised(kind, message) == [kind |-> kind, value |-> message]

\* No pipeline run: a function is called on its own
NoFrame == [stage |-> "none"]

\* The locals every function starts with: where its backend calls begin in
\* the log, and the bucket as it found it.
Entry == [firstCall |-> Len(calls) + 1, pre |-> indexes]

\* The running function ends: f(a), entered with locals l, made the backend
\* calls l.firstCall..last of the log and returned or raised `result`.
Finish(f, a, l, last, result) ==
    /\ pc' = "done"
    /\ ret' = result
    /\ invs' = Append(invs, [fn |-> f, args |-> a, ret |-> result,
                             firstCall |-> l.firstCall, lastCall |-> last,
                             pre |-> l.pre])

-----------------------------------------------------------------------------
(* upload_vectors *)

\* hash(chunk): Python's string hash, a function of the text and of the
\* process's hash seed, of either sign.
PyHash(chunk) == (chunk - 1) * (HashMod + hashseed)

\* str(n) of a natural number, as the sequence of its decimal digits
DigitChars == <<"0", "1", "2", "3", "4", "5", "6", "7", "8", "9">>
RECURSIVE Decimal(_)
Decimal(n) ==
    IF n < 10 THEN <<DigitChars[n + 1]>>
    ELSE Decimal(n \div 10) \o <<DigitChars[(n % 10) + 1]>>

\* A faulty key, of the bounded hash alone: f"chunk_{abs(hash(chunk)) % 100000}"
VectorKeyHashOnly(i, chunk) ==
    <<"chunk_">> \o Decimal(Abs(PyHash(chunk)) % HashMod)

\* The key of the record at position i (0-based), the string
\* f"chunk_{i}_{abs(hash(chunk)) % 100000}" as the sequence of its parts
VectorKey(i, chunk) ==
    <<"chunk_">> \o Decimal(i) \o <<"_">> \o Decimal(Abs(PyHash(chunk)) % HashMod)

\* A faulty record list: chunk_index counts from 1
VectorsOneBased(chunks, embeddings) ==
    [j \in 1..Min(Len(chunks), Len(embeddings)) |->
        [key |-> VectorKey(j - 1, chunks[j]),
         data |-> embeddings[j],
         metadata |-> [text |-> chunks[j], chunk_index |-> j]]]

\* The record list: enumerate(zip(chunks, embeddings))
Vectors(chunks, embeddings) ==
    [j \in 1..Min(Len(chunks), Len(embeddings)) |->
        [key |-> VectorKey(j - 1, chunks[j]),
         data |-> embeddings[j],
         metadata |-> [text |-> chunks[j], chunk_index |-> j - 1]]]

\* A faulty slice, one record short: vectors[i:i + batch_size - 1]
BatchShort(vectors, i) ==
    SubSeq(vectors, i + 1, Min(i + batch_size - 1, Len(vectors)))

\* vectors[i:i + batch_size]
Batch(vectors, i) == SubSeq(vectors, i + 1, Min(i + batch_size, Len(vectors)))

\* The inputs of the model: chunk j is one of NumTexts texts, embedding j is
\* a vector standing for position j.
ChunkList(n) == [j \in 1..n |-> (j - 1) % NumTexts]
EmbeddingList(n) == [j \in 1..n |-> 1000000 + j]

\* The lengths tried: around every multiple of the batch size.
UploadLens ==
    {q * batch_size + r : q \in 0..MaxFullBatches,
                          r \in {0, 1, batch_size \div 2, batch_size - 1}}
MaxLen == MaxFullBatches * batch_size + batch_size - 1

\* not chunks or not embeddings (line 60)
EmptyInput(chunks, embeddings) == chunks = <<>> \/ embeddings = <<>>

\* A faulty empty case: empty input treated as an error
UploadEmptyRaises == Raised("ValueError", "nothing to upload")

\* What upload_vectors does with empty input: a bare return (line 61)
UploadEmptyResult == Returned("None")

\* A faulty handler: the failure of a batch is dropped (except: pass)
UploadFailureSwallowed(outcome) == Returned("None")

\* What upload_vectors raises when put_vectors raised `outcome`: a ClientError
\* is wrapped in a RuntimeError, anything else is not caught (lines 81-82)
UploadFailure(outcome) ==
    IF outcome = "ClientError"
    THEN Raised("RuntimeError", "Failed to upload vectors")
    ELSE Raised(outcome, "put_vectors")

\* A call of upload_vectors: the empty check and the record list (lines 60-72).
UploadEnter(a) ==
    /\ fn' = "upload_vectors"
    /\ args' = a
    /\ IF EmptyInput(a.chunks, a.embeddings)
       THEN /\ loc' = Entry
            /\ Finish("upload_vectors", a, Entry, Len(calls), UploadEmptyResult)
       ELSE /\ loc' = [firstCall |-> Entry.firstCall, pre |-> Entry.pre,
                       vectors |-> Vectors(a.chunks, a.embeddings),
                       i |-> 0]
            /\ pc' = "upload_loop"
            /\ UNCHANGED <<ret, invs>>
    /\ UNCHANGED <<indexes, hashseed, calls>>

\* A call of upload_vectors on its own
UploadCall ==
    /\ pc = "idle"
    /\ \E n \in UploadLens, m \in {0, MaxLen}, name \in Names :
         \E e \in {n, m} :
           UploadEnter([chunks |-> ChunkList(n), embeddings |-> EmbeddingList(e),
                        index_name |-> name])
    /\ UNCHANGED frame

\* One iteration of the loop: one put_vectors call (lines 73-82).
UploadPutBatch ==
    /\ pc = "upload_loop"
    /\ loc.i < Len(loc.vectors)
    /\ LET batch == Batch(loc.vectors, loc.i)
           name == args.index_name
       IN \E outcome \in PutOutcomes(name) :
            /\ calls' = Append(calls, Call("put_vectors", name, 0, batch, <<>>, outcome))
            /\ UNCHANGED <<fn, args, hashseed, frame>>
            /\ IF outcome = "ok"
               THEN /\ indexes' = [indexes EXCEPT ![name].vectors =
                                       StoredAfterPut(@, batch)]
                    /\ loc' = [loc EXCEPT !.i = @ + batch_size]
                    /\ UNCHANGED <<pc, ret, invs>>
               ELSE /\ UNCHANGED <<indexes, loc>>
                    /\ Finish(fn, args, loc, Len(calls) + 1, UploadFailure(outcome))

\* The loop has run out: the function returns None.
UploadReturn ==
    /\ pc = "upload_loop"
    /\ loc.i >= Len(loc.vectors)
    /\ UNCHANGED <<indexes, hashseed, frame, calls, fn, args, loc>>
    /\ Finish(fn, args, loc, Len(calls), Returned("None"))

\* Before a call: nothing has run, nothing was called.
Idle ==
    /\ frame = NoFrame
    /\ calls = <<>>
    /\ pc = "idle"
    /\ fn = "none"
    /\ args = [index_name |-> "none"]
    /\ loc = [firstCall |-> 1, pre |-> indexes]
    /\ ret = [kind |-> "none", value |-> "None"]
    /\ invs = <<>>

\* The bucket an upload finds: each index absent or empty.
InitUpload ==
    /\ indexes \in {b \in Buckets : \A n \in DOMAIN b : b[n].dimension = 2}
    /\ hashseed \in {0, 1}
    /\ Idle

NextUpload == UploadCall \/ UploadPutBatch \/ UploadReturn

SpecUpload == InitUpload /\ [][NextUpload]_vars

-----------------------------------------------------------------------------
(* create_index_if_needed *)

\* What create_index may answer: the service refuses to create an index under
\* a name that is taken, and may fail any other creation.
CreateOutcomes(name) == IF name \in DOMAIN indexes THEN Failures ELSE Outcomes

\* The bucket after a successful create_index
BucketAfterCreate(name, dimension, metric) ==
    [n \in (DOMAIN indexes) \cup {name} |->
        IF n = name THEN NewIndex(dimension, metric) ELSE indexes[n]]

\* The bucket after a successful delete_index: the index and its records go
BucketAfterDelete(name) == [n \in (DOMAIN indexes) \ {name} |-> indexes[n]]

\* The answer of list_indexes as the code keys it by name (line 46).  The
\* summaries of a listing carry each index's dimension or do not: which one
\* is the service's choice, and the code reads the field with .get().
Existing(withDimension) ==
    [n \in DOMAIN indexes |->
        IF withDimension
        THEN [indexName |-> n, dimension |-> indexes[n].dimension]
        ELSE [indexName |-> n]]

\* existing[index_name].get('dimension') != dimension: a summary without the
\* field gives None, which differs from every dimension
DimensionDiffers(summary, dimension) ==
    "dimension" \notin DOMAIN summary \/ summary.dimension # dimension

\* A faulty condition that forgets the dimension: index_name not in existing
NeedsCreateNameOnly(existing, index_name, dimension) ==
    index_name \notin DOMAIN existing

\* The condition of line 47
NeedsCreate(existing, index_name, dimension) ==
    \/ index_name \notin DOMAIN existing
    \/ DimensionDiffers(existing[index_name], dimension)

\* A faulty handler: the failure leaves the function
Propagated == Raised("OtherError", "create_index_if_needed")

\* What the bare except clauses of lines 51 and 54 do with any exception of a
\* backend call: nothing, and the function goes on (or returns None)
Swallowed == Returned("None")

\* create_index_if_needed is entered with the arguments a
CinEnter(a) ==
    /\ fn' = "create_index_if_needed"
    /\ args' = a
    /\ loc' = Entry
    /\ pc' = "cin_list"
    /\ UNCHANGED <<indexes, hashseed, calls, ret, invs>>

\* A call of create_index_if_needed on its own
CinCall ==
    /\ pc \in {"idle", "done"}
    /\ Len(invs) < MaxInvocations
    /\ \E name \in Names, dimension \in Dims :
         CinEnter([index_name |-> name, dimension |-> dimension])
    /\ UNCHANGED frame

\* list_indexes and the test of line 47.  A failure of the call leaves the
\* try block for the outer except: pass.
CinListIndexes ==
    /\ pc = "cin_list"
    /\ UNCHANGED <<indexes, hashseed, frame, fn, args>>
    /\ \E outcome \in Outcomes :
         IF outcome # "ok"
         THEN /\ calls' = Append(calls,
                     Call("list_indexes", "", 0, <<>>, <<>>, outcome))
              /\ loc' = loc
              /\ Finish(fn, args, loc, Len(calls) + 1, Swallowed)
         ELSE \E withDimension \in BOOLEAN :
                LET existing == Existing(withDimension) IN
                /\ calls' = Append(calls,
                       Call("list_indexes", "", 0, <<>>, existing, outcome))
                /\ loc' = [firstCall |-> loc.firstCall, pre |-> loc.pre,
                           existing |-> existing]
                /\ IF NeedsCreate(existing, args.index_name, args.dimension)
                   THEN /\ pc' = IF args.index_name \in DOMAIN existing
                                 THEN "cin_delete" ELSE "cin_create"
                        /\ UNCHANGED <<ret, invs>>
                   ELSE Finish(fn, args, loc, Len(calls) + 1, Returned("None"))

\* The pre-emptive delete_index of lines 49-52: its failure is swallowed and
\* the function goes on to create_index.
CinDeleteIndex ==
    /\ pc = "cin_delete"
    /\ UNCHANGED <<hashseed, frame, fn, args, loc, ret, invs>>
    /\ \E outcome \in Outcomes :
         /\ calls' = Append(calls,
                Call("delete_index", args.index_name, 0, <<>>, <<>>, outcome))
         /\ indexes' = IF outcome = "ok" THEN BucketAfterDelete(args.index_name)
                       ELSE indexes
    /\ pc' = "cin_create"

\* create_index (line 53), the last statement: the function returns None
\* after it, also when it raised (line 54).
CinCreateIndex ==
    /\ pc = "cin_create"
    /\ UNCHANGED <<hashseed, frame, fn, args, loc>>
    /\ \E outcome \in CreateOutcomes(args.index_name) :
         /\ calls' = Append(calls,
                Call("create_index", args.index_name, args.dimension, <<>>, <<>>,
                     outcome))
         /\ indexes' = IF outcome = "ok"
                       THEN BucketAfterCreate(args.index_name, args.dimension, "cosine")
                       ELSE indexes
         /\ Finish(fn, args, loc, Len(calls) + 1,
                   IF outcome = "ok" THEN Returned("None") ELSE Swallowed)

InitIndex ==
    /\ indexes \in Buckets
    /\ hashseed = 0
    /\ Idle

NextIndex == CinCall \/ CinListIndexes \/ CinDeleteIndex \/ CinCreateIndex

SpecIndex == InitIndex /\ [][NextIndex]_vars

-----------------------------------------------------------------------------
(* search *)

\* The query vectors tried: None, the empty list, a vector
NoneValue == [kind |-> "None"]
ListValue(items) == [kind |-> "list", items |-> items]
Queries == {NoneValue, ListValue(<<>>), ListValue(<<1, 0>>)}

\* A faulty empty check that knows None only: query_embedding is None
EmptyQueryNoneOnly(query_embedding) == query_embedding.kind = "None"

\* not query_embedding (line 87)
EmptyQuery(query_embedding) ==
    query_embedding.kind = "None" \/ query_embedding.items = <<>>

\* What query_vectors may answer: the service refuses a query of an index
\* that does not exist, and may fail any other query.
QueryOutcomes(name) == IF name \in DOMAIN indexes THEN Outcomes ELSE Failures

\* The answers of a successful query_vectors(topK, returnMetadata,
\* returnDistance): at most topK of the index's records, no record twice,
\* nearest first, each with its key, its metadata and its distance (in
\* tenths) from the query vector.  Which records are near, and how near, is
\* the data's: every distance lo..MaxDist is tried.
RECURSIVE Responses(_, _, _)
Responses(stored, lo, topK) ==
    IF topK = 0 THEN {<<>>}
    ELSE {<<>>} \cup
         UNION {{<<[key |-> r.key, metadata |-> r.metadata, distance |-> d]>> \o rest :
                    rest \in Responses(stored \ {r}, d, topK - 1)} :
                r \in stored, d \in lo..MaxDist}

\* {} and dict.get(field, default)
EmptyDict == [k \in {} |-> 0]
GetOr(dict, field, default) == IF field \in DOMAIN dict THEN dict[field] ELSE default

\* Two faulty conversions: abs(1.0 - distance), and 1.0 - distance unclamped
SimilarityAbs(distance) == Abs(One - distance)
SimilarityNoClamp(distance) == One - distance

\* max(0.0, 1.0 - distance) (line 107), in tenths
Similarity(distance) == Max(0, One - distance)

\* The result built for one match (lines 102-110)
SearchResult(match) ==
    LET metadata == GetOr(match, "metadata", EmptyDict)
        distance == GetOr(match, "distance", One)
    IN [text |-> GetOr(metadata, "text", ""),
        similarity |-> Similarity(distance),
        id |-> GetOr(match, "key", ""),
        chunk_index |-> GetOr(metadata, "chunk_index", 0 - 1)]

\* The loop of lines 100-112: one result per match, in the response's order
SearchResults(response) == [j \in 1..Len(response) |-> SearchResult(response[j])]

\* A faulty handler: a failed query gives the empty list
SearchFailureSwallowed(outcome) == Returned(<<>>)

\* What search raises when query_vectors raised `outcome`: a ClientError is
\* wrapped in a RuntimeError, anything else is not caught (lines 113-114)
SearchFailure(outcome) ==
    IF outcome = "ClientError"
    THEN Raised("RuntimeError", "Search failed")
    ELSE Raised(outcome, "query_vectors")

\* search is entered with the arguments a: the empty check (lines 87-88)
SearchEnter(a) ==
    /\ fn' = "search"
    /\ args' = a
    /\ loc' = Entry
    /\ IF EmptyQuery(a.query_embedding)
       THEN Finish("search", a, Entry, Len(calls), Returned(<<>>))
       ELSE /\ pc' = "search_query"
            /\ UNCHANGED <<ret, invs>>
    /\ UNCHANGED <<indexes, hashseed, calls>>

\* A call of search on its own
SearchCall ==
    /\ pc = "idle"
    /\ \E query \in Queries, name \in Names, top_k \in 1..MaxTopK :
         SearchEnter([query_embedding |-> query, index_name |-> name,
                      top_k |-> top_k])
    /\ UNCHANGED frame

\* The records a query's answers are drawn from, and the least distance
\* tried: all records and every distance for a search on its own; in a
\* pipeline run, where the index holds an upload, the records of the first
\* top_k positions at the distance MaxDist
Candidates(stored, top_k) ==
    IF frame = NoFrame THEN stored
    ELSE {r \in stored : r.metadata.chunk_index < top_k}
LeastDistance == IF frame = NoFrame THEN 0 ELSE MaxDist

\* The query_vectors call and what follows it (lines 90-114)
SearchQueryVectors ==
    /\ pc = "search_query"
    /\ UNCHANGED <<indexes, hashseed, frame, fn, args, loc>>
    /\ \E outcome \in QueryOutcomes(args.index_name) :
         IF outcome = "ok"
         THEN \E response \in Responses(Candidates(indexes[args.index_name].vectors,
                                                   args.top_k),
                                        LeastDistance, args.top_k) :
                /\ calls' = Append(calls,
                       Call("query_vectors", args.index_name, args.top_k, <<>>, response,
                            outcome))
                /\ Finish(fn, args, loc, Len(calls) + 1,
                          Returned(SearchResults(response)))
         ELSE /\ calls' = Append(calls,
                     Call("query_vectors", args.index_name, args.top_k, <<>>, <<>>, outcome))
              /\ Finish(fn, args, loc, Len(calls) + 1, SearchFailure(outcome))

\* The records a search finds in the bucket: those of an earlier upload
SearchSample == StoredAfterPut({}, Vectors(ChunkList(3), EmbeddingList(3)))

\* The bucket a search finds: test-index holds records, other-index is absent
\* or empty.
InitSearch ==
    /\ hashseed = 1
    /\ indexes \in UNION {{[n \in S |-> [dimension |-> 2, distanceMetric |-> "cosine",
                                         vectors |-> IF n = "test-index" THEN V ELSE {}]] :
                               V \in {{}, SearchSample}} : S \in SUBSET Names}
    /\ Idle

NextSearch == SearchCall \/ SearchQueryVectors

SpecSearch == InitSearch /\ [][NextSearch]_vars

-----------------------------------------------------------------------------
(* delete_index *)

\* A faulty handler: a failed deletion is dropped (except: pass)
DeleteFailureSwallowed(outcome) == Returned("None")

\* What delete_index raises when client.delete_index raised `outcome`: a
\* ClientError is wrapped in a RuntimeError, anything else is not caught
\* (lines 122-123)
DeleteFailure(outcome) ==
    IF outcome = "ClientError"
    THEN Raised("RuntimeError", "Failed to delete index")
    ELSE Raised(outcome, "delete_index")

\* delete_index is entered with the arguments a
TeardownEnter(a) ==
    /\ fn' = "delete_index"
    /\ args' = a
    /\ loc' = Entry
    /\ pc' = "teardown_delete"
    /\ UNCHANGED <<indexes, hashseed, calls, ret, invs>>

\* A call of delete_index on its own
TeardownCall ==
    /\ pc \in {"idle", "done"}
    /\ Len(invs) < MaxInvocations
    /\ \E name \in Names : TeardownEnter([index_name |-> name])
    /\ UNCHANGED frame

\* The client.delete_index call and what follows it (lines 120-123)
TeardownDeleteIndex ==
    /\ pc = "teardown_delete"
    /\ UNCHANGED <<hashseed, frame, fn, args, loc>>
    /\ \E outcome \in Outcomes :
         /\ calls' = Append(calls,
                Call("delete_index", args.index_name, 0, <<>>, <<>>, outcome))
         /\ indexes' = IF outcome = "ok" THEN BucketAfterDelete(args.index_name)
                       ELSE indexes
         /\ Finish(fn, args, loc, Len(calls) + 1,
                   IF outcome = "ok" THEN Returned("None") ELSE DeleteFailure(outcome))

\* The bucket a teardown finds: as a search finds it
InitTeardown == InitSearch

NextTeardown == TeardownCall \/ TeardownDeleteIndex

SpecTeardown == InitTeardown /\ [][NextTeardown]_vars

-----------------------------------------------------------------------------
(* clean_text: a text is a sequence of characters *)

QUOTE == "\""
BACKSLASH == "\\"
NEWLINE == "\n"

\* The character classes of the pattern (lines 23-27), over the characters
\* the model writes texts with
Alnum == {"a", "n", "N", "o", "e"}
Word == Alnum \cup {"_"}
Space == {" ", NEWLINE}
Structural == {"{", "}", "[", "]", QUOTE, "'"}
Chars == {"a", "n", " ", NEWLINE, "<", ">", QUOTE, ":", "@", "_", BACKSLASH, "{"}

Least(S) == CHOOSE x \in S : \A y \in S : x <= y
Greatest(S) == CHOOSE x \in S : \A y \in S : x >= y

\* The first position from i on that is past the end or not in class C
SkipWhile(s, i, C) == Least({j \in i..(Len(s) + 1) : j = Len(s) + 1 \/ s[j] \notin C})

\* The first position from i on that is past the end or in class C
SkipUntil(s, i, C) == Least({j \in i..(Len(s) + 1) : j = Len(s) + 1 \/ s[j] \in C})

NoMatch == [kind |-> "none", end |-> 0, group1 |-> <<>>]
Matched(kind, end, group1) == [kind |-> kind, end |-> end, group1 |-> group1]

\* <[^>]+> at i: "<", one or more characters that are not ">", then ">"
TagAt(s, i) ==
    IF s[i] # "<" THEN NoMatch
    ELSE LET j == SkipUntil(s, i + 1, {">"})
         IN IF j <= Len(s) /\ j >= i + 2 THEN Matched("tag", j, <<>>) ELSE NoMatch

\* \"[a-zA-Z0-9_]+\"\s*:\s*\"(.*?)\" at i: a quoted key, a colon with optional
\* whitespace around it, and a quoted value that runs to the next quote of
\* the same line (. does not match a newline); group 1 is the value
KvAt(s, i) ==
    IF s[i] # QUOTE THEN NoMatch
    ELSE LET k == SkipWhile(s, i + 1, Word)
         IN IF ~(k >= i + 2 /\ k <= Len(s) /\ s[k] = QUOTE) THEN NoMatch
            ELSE LET c == SkipWhile(s, k + 1, Space)
                 IN IF ~(c <= Len(s) /\ s[c] = ":") THEN NoMatch
                    ELSE LET q == SkipWhile(s, c + 1, Space)
                         IN IF ~(q <= Len(s) /\ s[q] = QUOTE) THEN NoMatch
                            ELSE LET e == SkipUntil(s, q + 1, {QUOTE, NEWLINE})
                                 IN IF e <= Len(s) /\ s[e] = QUOTE
                                    THEN Matched("kv", e, SubSeq(s, q + 1, e - 1))
                                    ELSE NoMatch

\* The match of the whole pattern at i: the alternatives in their order
\* (lines 23-27); group 1 of an alternative without the group is None, <<>> here
MatchAt(s, i) ==
    IF TagAt(s, i).kind # "none" THEN TagAt(s, i)
    ELSE IF KvAt(s, i).kind # "none" THEN KvAt(s, i)
    ELSE IF s[i] \in Structural THEN Matched("structural", i, <<>>)
    ELSE IF s[i] = BACKSLASH /\ i < Len(s) /\ s[i + 1] \in {"n", "r", "t"}
         THEN Matched("escape", i + 1, <<>>)
    ELSE IF s[i] \notin Alnum \cup Space THEN Matched("special", i, <<>>)
    ELSE NoMatch

\* Faulty replacements: a space for every match; group 1 even when empty
ReplacementSpace(m) == <<" ">>
ReplacementGroup(m) == m.group1

\* lambda m: m.group(1) if m.group(1) else ' ' (line 28)
Replacement(m) == IF m.group1 # <<>> THEN m.group1 ELSE <<" ">>

\* re.sub(pattern, repl, text) from position i on: the leftmost match is
\* replaced and the scan goes on after it; acc holds the output so far and
\* the matches made, each with its place in the output
RECURSIVE Substitute(_, _, _)
Substitute(s, i, acc) ==
    IF i > Len(s) THEN acc
    ELSE LET m == MatchAt(s, i)
         IN IF m.kind = "none"
            THEN Substitute(s, i + 1, [out |-> Append(acc.out, s[i]),
                                       matches |-> acc.matches])
            ELSE Substitute(s, m.end + 1,
                     [out |-> acc.out \o Replacement(m),
                      matches |-> Append(acc.matches,
                          [kind |-> m.kind, start |-> i, end |-> m.end,
                           group1 |-> m.group1, at |-> Len(acc.out) + 1])])

\* re.sub(r'\s+', ' ', text) from position i on (line 33)
RECURSIVE Collapse(_, _)
Collapse(s, i) ==
    IF i > Len(s) THEN <<>>
    ELSE IF s[i] \in Space THEN <<" ">> \o Collapse(s, SkipWhile(s, i, Space))
    ELSE <<s[i]>> \o Collapse(s, i + 1)

\* str.strip() (line 33)
Strip(s) ==
    SubSeq(s, SkipWhile(s, 1, Space),
           Greatest({j \in 0..Len(s) : j = 0 \/ s[j] \notin Space}))

\* The argument of clean_text: a str or None
StrValue(t) == [kind |-> "str", value |-> t]

\* A faulty coercion: None is read as the empty text
PyStrOrEmpty(x) == IF x.kind = "str" THEN x.value ELSE <<>>

\* str(text) of lines 18-19
PyStr(x) == IF x.kind = "str" THEN x.value ELSE <<"N", "o", "n", "e">>

\* The texts clean_text is given: every text of up to MaxFreeLen characters,
\* and the texts with a quoted key/value pair (or what falls short of one)
\* between two characters
MaxFreeLen == 3
MaxValueLen == 2
FreeTexts == UNION {[1..n -> Chars] : n \in 0..MaxFreeLen}
Keys == {<<"a">>, <<"_", "n">>, <<>>, <<"@">>}
Gaps == {<<>>, <<" ">>, <<NEWLINE>>}
ValueChars == {"a", "@", " ", QUOTE, NEWLINE}
Values == UNION {[1..n -> ValueChars] : n \in 0..MaxValueLen}
Around == {<<>>, <<"a">>, <<QUOTE>>, <<"{">>}
KvTexts ==
    {pre \o <<QUOTE>> \o key \o <<QUOTE>> \o gap \o <<":">> \o gap
         \o <<QUOTE>> \o v \o <<QUOTE>> \o post :
     pre \in Around, key \in Keys, gap \in Gaps, v \in Values, post \in Around}
CleanInputs == {StrValue(t) : t \in FreeTexts \cup KvTexts} \cup {NoneValue}

\* clean_text(text) is called: lines 18-31, the coercion and the first re.sub
CleanSubstitute ==
    /\ pc = "idle"
    /\ fn = "clean_text"
    /\ loc' = [firstCall |-> Entry.firstCall, pre |-> Entry.pre,
               sub |-> Substitute(PyStr(args.text), 1,
                                  [out |-> <<>>, matches |-> <<>>])]
    /\ pc' = "clean_collapse"
    /\ UNCHANGED <<indexes, hashseed, frame, calls, fn, args, ret, invs>>

\* line 33
CleanReturn ==
    /\ pc = "clean_collapse"
    /\ Finish(fn, args, loc, Len(calls), Returned(Strip(Collapse(loc.sub.out, 1))))
    /\ UNCHANGED <<indexes, hashseed, frame, calls, fn, args, loc>>

InitClean ==
    /\ hashseed = 0
    /\ frame = NoFrame
    /\ indexes = [n \in {} |-> NewIndex(2, "cosine")]
    /\ calls = <<>>
    /\ pc = "idle"
    /\ fn = "clean_text"
    /\ args \in {[text |-> x] : x \in CleanInputs}
    /\ loc = [firstCall |-> 1, pre |-> indexes]
    /\ ret = [kind |-> "none", value |-> "None"]
    /\ invs = <<>>

NextClean == CleanSubstitute \/ CleanReturn

SpecClean == InitClean /\ [][NextClean]_vars

-----------------------------------------------------------------------------
(* create_chunks: RecursiveCharacterTextSplitter(chunk_size, chunk_overlap)
   and its split_text, as langchain_text_splitters defines them (keyword
   defaults: separators "\n\n", "\n", " ", "", keep_separator=True,
   length_function=len, strip_whitespace=True) *)

\* separators of the splitter, in the order they are tried
Separators == <<<<NEWLINE, NEWLINE>>, <<NEWLINE>>, <<" ">>, <<>>>>

\* A faulty check of the constructor: an overlap equal to the size is refused
OverlapRefusedWhenEqual(chunk_size, chunk_overlap) == chunk_overlap >= chunk_size

\* The check of the constructor: if chunk_overlap > chunk_size: raise ValueError
OverlapRefused(chunk_size, chunk_overlap) == chunk_overlap > chunk_size

\* sep occurs in text at position i
OccursAt(text, sep, i) ==
    /\ i + Len(sep) - 1 <= Len(text)
    /\ SubSeq(text, i, i + Len(sep) - 1) = sep

\* re.search(separator, text)
Contains(text, sep) == \E i \in 1..Len(text) : OccursAt(text, sep, i)

\* re.split with the separator kept at the start of the piece after it, from
\* position i on; cur is the piece being read
RECURSIVE SplitKeep(_, _, _, _)
SplitKeep(text, sep, i, cur) ==
    IF i > Len(text) THEN <<cur>>
    ELSE IF OccursAt(text, sep, i)
         THEN <<cur>> \o SplitKeep(text, sep, i + Len(sep), sep)
         ELSE SplitKeep(text, sep, i + 1, Append(cur, text[i]))

\* _split_text_with_regex: the pieces of text, the empty ones dropped; the
\* empty separator gives the characters of the text
SplitWithRegex(text, sep) ==
    IF sep = <<>> THEN [i \in 1..Len(text) |-> <<text[i]>>]
    ELSE SelectSeq(SplitKeep(text, sep, 1, <<>>), LAMBDA p : p # <<>>)

RECURSIVE Concat(_)
Concat(docs) == IF docs = <<>> THEN <<>> ELSE Head(docs) \o Concat(Tail(docs))

RECURSIVE TotalLen(_)
TotalLen(docs) == IF docs = <<>> THEN 0 ELSE Len(Head(docs)) + TotalLen(Tail(docs))

\* A faulty join: the pieces are joined with a space between them
RECURSIVE JoinDocsSpaced(_)
JoinDocsSpaced(docs) ==
    IF docs = <<>> THEN <<>>
    ELSE IF Len(docs) = 1 THEN Strip(Head(docs))
    ELSE Strip(Head(docs) \o <<" ">> \o JoinDocsSpaced(Tail(docs)))

\* _join_docs with the separator "" that keep_separator=True gives: the
\* pieces joined and stripped (an empty result is dropped by the caller)
JoinDocs(docs) == Strip(Concat(docs))

AppendDoc(docs, doc) == IF doc = <<>> THEN docs ELSE Append(docs, doc)

\* A faulty test: the document is closed only when it is already too long
OverflowsLate(total, len, chunk_size) == total > chunk_size

\* The test of _merge_splits: the piece does not fit the current document
Overflows(total, len, chunk_size) == total + len > chunk_size

\* The while loop of _merge_splits: pieces leave the front of the current
\* document until what stays is no longer than the overlap and the new piece
\* fits
RECURSIVE DropFront(_, _, _, _)
DropFront(current_doc, len, chunk_size, chunk_overlap) ==
    IF /\ current_doc # <<>>
       /\ \/ TotalLen(current_doc) > chunk_overlap
          \/ /\ Overflows(TotalLen(current_doc), len, chunk_size)
             /\ TotalLen(current_doc) > 0
    THEN DropFront(Tail(current_doc), len, chunk_size, chunk_overlap)
    ELSE current_doc

\* _merge_splits from piece i on: docs are the documents closed so far
RECURSIVE MergeSplits(_, _, _, _, _, _)
MergeSplits(splits, i, docs, current_doc, chunk_size, chunk_overlap) ==
    IF i > Len(splits) THEN AppendDoc(docs, JoinDocs(current_doc))
    ELSE IF Overflows(TotalLen(current_doc), Len(splits[i]), chunk_size)
              /\ current_doc # <<>>
         THEN MergeSplits(splits, i + 1, AppendDoc(docs, JoinDocs(current_doc)),
                  Append(DropFront(current_doc, Len(splits[i]), chunk_size,
                                   chunk_overlap), splits[i]),
                  chunk_size, chunk_overlap)
         ELSE MergeSplits(splits, i + 1, docs, Append(current_doc, splits[i]),
                  chunk_size, chunk_overlap)

Merged(good, chunk_size, chunk_overlap) ==
    IF good = <<>> THEN <<>>
    ELSE MergeSplits(good, 1, <<>>, <<>>, chunk_size, chunk_overlap)

\* The first separator that is empty or occurs in the text
SeparatorIndex(text, separators) ==
    Least({k \in 1..Len(separators) :
              separators[k] = <<>> \/ Contains(text, separators[k])})

\* _split_text: the text is split at the first separator it holds, pieces
\* shorter than chunk_size are merged, and a piece that is not is split again
\* with the separators that are left (WalkSplits is its loop over the pieces)
RECURSIVE SplitText(_, _, _, _)
RECURSIVE WalkSplits(_, _, _, _, _, _, _)
SplitText(text, separators, chunk_size, chunk_overlap) ==
    LET k == SeparatorIndex(text, separators)
        new_separators == IF separators[k] = <<>> THEN <<>>
                          ELSE SubSeq(separators, k + 1, Len(separators))
    IN WalkSplits(SplitWithRegex(text, separators[k]), 1, <<>>, <<>>,
                  new_separators, chunk_size, chunk_overlap)
WalkSplits(splits, i, good, final, new_separators, chunk_size, chunk_overlap) ==
    IF i > Len(splits) THEN final \o Merged(good, chunk_size, chunk_overlap)
    ELSE IF Len(splits[i]) < chunk_size
         THEN WalkSplits(splits, i + 1, Append(good, splits[i]), final,
                         new_separators, chunk_size, chunk_overlap)
         ELSE WalkSplits(splits, i + 1, <<>>,
                  final \o Merged(good, chunk_size, chunk_overlap)
                        \o (IF new_separators = <<>> THEN <<splits[i]>>
                            ELSE SplitText(splits[i], new_separators,
                                           chunk_size, chunk_overlap)),
                  new_separators, chunk_size, chunk_overlap)

\* The texts create_chunks is given: what clean_text returns, letters and
\* single spaces with no space at either end
MaxTextLen == 5
MaxChunkSize == 3
Normalized(t) ==
    /\ \A i \in 1..(Len(t) - 1) : ~(t[i] = " " /\ t[i + 1] = " ")
    /\ t # <<>> => t[1] # " " /\ t[Len(t)] # " "
NormalizedTexts ==
    {t \in UNION {[1..n -> {"a", "n", " "}] : n \in 0..MaxTextLen} : Normalized(t)}

\* line 40: the splitter is made, or its constructor raises
ChunksConstruct ==
    /\ pc = "idle"
    /\ fn = "create_chunks"
    /\ loc' = Entry
    /\ IF OverlapRefused(args.chunk_size, args.chunk_overlap)
       THEN Finish(fn, args, Entry, Len(calls),
                   Raised("ValueError", "Got a larger chunk overlap than chunk size"))
       ELSE /\ pc' = "chunks_split"
            /\ UNCHANGED <<ret, invs>>
    /\ UNCHANGED <<indexes, hashseed, frame, calls, fn, args>>

\* line 41: splitter.split_text(text)
ChunksSplit ==
    /\ pc = "chunks_split"
    /\ Finish(fn, args, loc, Len(calls),
              Returned(SplitText(args.text, Separators,
                                 args.chunk_size, args.chunk_overlap)))
    /\ UNCHANGED <<indexes, hashseed, frame, calls, fn, args, loc>>

InitChunks ==
    /\ hashseed = 0
    /\ frame = NoFrame
    /\ indexes = [n \in {} |-> NewIndex(2, "cosine")]
    /\ calls = <<>>
    /\ pc = "idle"
    /\ fn = "create_chunks"
    /\ args \in {[text |-> t, chunk_size |-> S, chunk_overlap |-> O] :
                    t \in NormalizedTexts, S \in 1..MaxChunkSize,
                    O \in 0..(MaxChunkSize + 1)}
    /\ loc = [firstCall |-> 1, pre |-> indexes]
    /\ ret = [kind |-> "none", value |-> "None"]
    /\ invs = <<>>

NextChunks == ChunksConstruct \/ ChunksSplit

SpecChunks == InitChunks /\ [][NextChunks]_vars

-----------------------------------------------------------------------------
(* main: the pipeline run from create_index_if_needed on (lines 161-183) *)

DefaultDimension == 1536
MainTopK == 3

\* The index main works on (line 167)
MainIndex == "test-index"

\* The locals of main before line 169: chunks and embeddings of n texts and
\* dimension = len(embeddings[0]) if embeddings else 1536, the length d of
\* the embeddings being the embedding model's
MainLocals(n, d) ==
    [stage |-> "ensure-index",
     chunks |-> ChunkList(n),
     embeddings |-> EmbeddingList(n),
     dimension |-> IF n = 0 THEN DefaultDimension ELSE d]

\* The numbers of chunks tried: none, one, and one more than a batch
MainLens == {0, 1, batch_size + 1}

\* The bucket main finds: test-index absent, or left there by an earlier run
MainBuckets ==
    {[n \in {} |-> NewIndex(2, "cosine")]}
    \cup {[n \in {MainIndex} |-> [dimension |-> d, distanceMetric |-> "cosine",
                                  vectors |-> V]] :
             d \in Dims, V \in {{}, SearchSample}}

\* A faulty sequencing: the next statement runs whatever the last call did
SucceededAlways(result) == TRUE

\* The call returned: an exception of a call leaves main at once, there is no
\* try in main
Succeeded(result) == result.kind = "return"

\* main ends, returning or raising `result`
MainEnd(result) ==
    /\ frame' = [frame EXCEPT !.stage = "ended"]
    /\ fn' = "main"
    /\ args' = [index_name |-> MainIndex]
    /\ Finish("main", [index_name |-> MainIndex],
              [firstCall |-> 1, pre |-> IF invs = <<>> THEN indexes ELSE invs[1].pre],
              Len(calls), result)
    /\ UNCHANGED <<indexes, hashseed, calls, loc>>

\* line 169
MainEnsureIndex ==
    /\ frame.stage = "ensure-index"
    /\ pc = "idle"
    /\ CinEnter([index_name |-> MainIndex, dimension |-> frame.dimension])
    /\ UNCHANGED frame

\* line 170
MainUpload ==
    /\ frame.stage = "ensure-index"
    /\ pc = "done"
    /\ Succeeded(ret)
    /\ UploadEnter([chunks |-> frame.chunks, embeddings |-> frame.embeddings,
                    index_name |-> MainIndex])
    /\ frame' = [frame EXCEPT !.stage = "upload"]

\* lines 172-174: embed_query, which may raise, and the call of search
MainSearch ==
    /\ frame.stage = "upload"
    /\ pc = "done"
    /\ Succeeded(ret)
    /\ \E embedded \in {"ok", "OtherError"} :
         IF embedded = "ok"
         THEN /\ SearchEnter([query_embedding |-> ListValue(<<1, 0>>),
                              index_name |-> MainIndex, top_k |-> MainTopK])
              /\ frame' = [frame EXCEPT !.stage = "search"]
         ELSE MainEnd(Raised(embedded, "embed_query"))

\* lines 176-182: the results are printed and delete_index is called
MainTeardown ==
    /\ frame.stage = "search"
    /\ pc = "done"
    /\ Succeeded(ret)
    /\ TeardownEnter([index_name |-> MainIndex])
    /\ frame' = [frame EXCEPT !.stage = "teardown"]

\* line 183 and the end of main
MainReturn ==
    /\ frame.stage = "teardown"
    /\ pc = "done"
    /\ Succeeded(ret)
    /\ MainEnd(Returned("None"))

\* An exception of upload_vectors, search or delete_index leaves main
MainRaise ==
    /\ frame.stage \in {"upload", "search", "teardown"}
    /\ pc = "done"
    /\ ~Succeeded(ret)
    /\ MainEnd(ret)

InitMain ==
    /\ hashseed = 1
    /\ indexes \in MainBuckets
    /\ frame \in {MainLocals(n, d) : n \in MainLens, d \in Dims}
    /\ calls = <<>>
    /\ pc = "idle"
    /\ fn = "main"
    /\ args = [index_name |-> MainIndex]
    /\ loc = [firstCall |-> 1, pre |-> indexes]
    /\ ret = [kind |-> "none", value |-> "None"]
    /\ invs = <<>>

NextMain ==
    \/ MainEnsureIndex \/ CinListIndexes \/ CinDeleteIndex \/ CinCreateIndex
    \/ MainUpload \/ UploadPutBatch \/ UploadReturn
    \/ MainSearch \/ SearchQueryVectors
    \/ MainTeardown \/ TeardownDeleteIndex
    \/ MainReturn \/ MainRaise

SpecMain == InitMain /\ [][NextMain]_vars

-----------------------------------------------------------------------------
(* The chatbot loop of 3_Langchain_Tools_Calling/app.py: main.  The locals
   of main are in loc: the message history, the tool calls the for loop has
   still to go through, and the number of inputs read. *)

MaxInputs == 2
MaxToolCalls == 2

HumanMessage == [type |-> "human"]
AIMessage(tool_calls) == [type |-> "ai", tool_calls |-> tool_calls]
ToolMessage(tool_call_id) == [type |-> "tool", tool_call_id |-> tool_call_id]

\* The tool calls the responses in the history carry, all told
RECURSIVE ToolCallCount(_)
ToolCallCount(messages) ==
    IF messages = <<>> THEN 0
    ELSE (IF Head(messages).type = "ai" THEN Len(Head(messages).tool_calls) ELSE 0)
         + ToolCallCount(Tail(messages))

\* A response of the model with k tool calls: their ids are the model's, new
\* with every response
Response(messages, k) == AIMessage([c \in 1..k |-> ToolCallCount(messages) + c])

\* invoke() returns a response or raises
InvokeOutcomes == {"ok", "Exception"}

\* lines 30-37: a line is read; exit ends the loop, an empty line is
\* skipped, anything else is appended to the history as a HumanMessage
ChatInput ==
    /\ pc = "chat_input"
    /\ loc.inputs < MaxInputs
    /\ \E user_input \in {"exit", "", "text"} :
         IF user_input = "exit"
         THEN /\ loc' = [loc EXCEPT !.inputs = @ + 1]
              /\ Finish(fn, args, loc, Len(calls), Returned("None"))
         ELSE /\ loc' = [loc EXCEPT
                    !.inputs = @ + 1,
                    !.messages = IF user_input = "" THEN @
                                 ELSE Append(@, HumanMessage)]
              /\ pc' = IF user_input = "" THEN "chat_input" ELSE "chat_invoke"
              /\ UNCHANGED <<ret, invs>>
    /\ UNCHANGED <<indexes, hashseed, frame, calls, fn, args>>

\* lines 40-43 and 52-55: the model is invoked with the history; its response
\* is appended and, when it carries tool calls, the for loop starts; an
\* exception goes to the handler of line 54 and the next input
ChatInvoke ==
    /\ pc = "chat_invoke"
    /\ \E outcome \in InvokeOutcomes, k \in 0..MaxToolCalls :
         IF outcome = "ok"
         THEN LET response == Response(loc.messages, k)
              IN /\ loc' = [loc EXCEPT !.messages = Append(@, response),
                                       !.tool_calls = response.tool_calls]
                 /\ pc' = IF response.tool_calls # <<>> THEN "chat_tool"
                          ELSE "chat_input"
         ELSE /\ loc' = loc
              /\ pc' = "chat_input"
    /\ UNCHANGED <<indexes, hashseed, frame, calls, fn, args, ret, invs>>

\* lines 44-47: the tool is invoked for the next tool call of the response
\* and its ToolMessage is appended; an exception of the tool goes to line 54
ChatTool ==
    /\ pc = "chat_tool"
    /\ \E outcome \in InvokeOutcomes :
         IF outcome = "ok"
         THEN /\ loc' = [loc EXCEPT
                    !.messages = Append(@, ToolMessage(Head(loc.tool_calls)))]
              /\ pc' = "chat_final_invoke"
         ELSE /\ loc' = [loc EXCEPT !.tool_calls = <<>>]
              /\ pc' = "chat_input"
    /\ UNCHANGED <<indexes, hashseed, frame, calls, fn, args, ret, invs>>

\* lines 48-51, inside the for loop: the model is invoked again with the
\* history and its response is appended; the loop goes on with the next tool
\* call of the first response
ChatFinalInvoke ==
    /\ pc = "chat_final_invoke"
    /\ \E outcome \in InvokeOutcomes, k \in 0..MaxToolCalls :
         IF outcome = "ok"
         THEN /\ loc' = [loc EXCEPT
                    !.messages = Append(@, Response(loc.messages, k)),
                    !.tool_calls = Tail(@)]
              /\ pc' = IF Tail(loc.tool_calls) # <<>> THEN "chat_tool"
                       ELSE "chat_input"
         ELSE /\ loc' = [loc EXCEPT !.tool_calls = <<>>]
              /\ pc' = "chat_input"
    /\ UNCHANGED <<indexes, hashseed, frame, calls, fn, args, ret, invs>>

\* line 25: the history is empty
InitChat ==
    /\ hashseed = 0
    /\ frame = NoFrame
    /\ indexes = [n \in {} |-> NewIndex(2, "cosine")]
    /\ calls = <<>>
    /\ pc = "chat_input"
    /\ fn = "chatbot"
    /\ args = [index_name |-> "none"]
    /\ loc = [firstCall |-> 1, pre |-> indexes, messages |-> <<>>,
              tool_calls |-> <<>>, inputs |-> 0]
    /\ ret = [kind |-> "none", value |-> "None"]
    /\ invs = <<>>

NextChat == ChatInput \/ ChatInvoke \/ ChatTool \/ ChatFinalInvoke

SpecChat == InitChat /\ [][NextChat]_vars

-----------------------------------------------------------------------------
(* Properties of upload_vectors, checked under SpecUpload *)

\* The backend calls an invocation made, in order
CallsOf(inv) == SubSeq(calls, inv.firstCall, inv.lastCall)

\* The finished invocations of a function
Finished(f) == {j \in 1..Len(invs) : invs[j].fn = f}

CeilDiv(a, b) == (a + b - 1) \div b

\* The failed calls among an invocation's
FailedCalls(inv) == {k \in inv.firstCall..inv.lastCall : calls[k].outcome # "ok"}

\* C1: an upload of N > 0 chunk/embedding pairs (lists of equal length) in
\* which no call failed made exactly ceil(N/400) put_vectors calls, every one
\* but the last with exactly 400 records and the last with the
\* N - 400*(ceil(N/400) - 1) records that remain.
C1_BatchCount ==
    \A j \in Finished("upload_vectors") :
        LET inv == invs[j]
            N == Len(inv.args.chunks)
            made == CallsOf(inv)
            nb == CeilDiv(N, 400)
        IN (N > 0 /\ Len(inv.args.embeddings) = N /\ FailedCalls(inv) = {})
           => /\ Len(made) = nb
              /\ \A k \in 1..nb :
                    /\ made[k].op = "put_vectors"
                    /\ Len(made[k].vectors) = IF k < nb THEN 400 ELSE N - 400 * (nb - 1)

\* C1's case: 1000 pairs went up in calls of 400, 400 and 200 records.
C1_Witness ==
    \E j \in Finished("upload_vectors") :
        /\ Len(invs[j].args.chunks) = 1000
        /\ Len(invs[j].args.embeddings) = 1000
        /\ FailedCalls(invs[j]) = {}
        /\ Len(CallsOf(invs[j])) = 3
        /\ Len(CallsOf(invs[j])[3].vectors) = 200

\* The records of the index an upload writes to, when it exists
StoredIn(name) == IF name \in DOMAIN indexes THEN indexes[name].vectors ELSE {}

\* What C2 says of the batches, for the upload that is running or has ended:
\* its calls are the batches 0, 1, 2, ... in order, each submitted once; all
\* but the last succeeded and their records are in the index; a failed call
\* is the last one, and the upload ended with it.
FailFastBatches ==
    fn = "upload_vectors" /\ pc # "idle" /\ ~EmptyInput(args.chunks, args.embeddings)
    => LET all == Vectors(args.chunks, args.embeddings)
           made == SubSeq(calls, loc.firstCall, Len(calls))
       IN /\ \A k \in 1..Len(made) :
                /\ made[k].op = "put_vectors"
                /\ made[k].vectors =
                      SubSeq(all, 400 * (k - 1) + 1, Min(400 * k, Len(all)))
                /\ made[k].outcome # "ok" => k = Len(made) /\ pc = "done"
                /\ made[k].outcome = "ok" =>
                      \A i \in 1..Len(made[k].vectors) :
                          made[k].vectors[i] \in StoredIn(args.index_name)
          /\ 400 * (Len(made) - 1) < Len(all) \/ made = <<>>

\* C2 as stated: a failed put_vectors call ends the upload with the upload
\* error (the RuntimeError of line 82), the batches before it written once
\* and kept, the failed batch not retried, no later batch submitted.
C2_Original ==
    /\ FailFastBatches
    /\ \A j \in Finished("upload_vectors") :
          FailedCalls(invs[j]) # {} => invs[j].ret.kind = "RuntimeError"

\* C2 as amended: the upload fails at once, with the upload error when the
\* call raised a ClientError and with the call's own exception otherwise.
C2_FailFast ==
    /\ FailFastBatches
    /\ \A j \in Finished("upload_vectors") :
          /\ FailedCalls(invs[j]) # {} =>
                /\ invs[j].ret.kind # "return"
                /\ FailedCalls(invs[j]) = {invs[j].lastCall}
                /\ calls[invs[j].lastCall].outcome = "ClientError"
                     => invs[j].ret = Raised("RuntimeError", "Failed to upload vectors")
                /\ calls[invs[j].lastCall].outcome # "ClientError"
                     => invs[j].ret.kind = calls[invs[j].lastCall].outcome
          /\ invs[j].ret.kind # "return" => FailedCalls(invs[j]) # {}

\* C2's case: the third batch of an upload failed after two were written.
C2_Witness ==
    \E j \in Finished("upload_vectors") :
        /\ Len(CallsOf(invs[j])) = 3
        /\ calls[invs[j].lastCall].outcome = "ClientError"
        /\ invs[j].ret.kind = "RuntimeError"
        /\ Cardinality(StoredIn(invs[j].args.index_name)) = 800

\* C6: an upload given an empty chunk list or an empty embedding list
\* returned None, made no backend call and left the bucket as it was.
C6_EmptyUpload ==
    \A j \in Finished("upload_vectors") :
        (Len(invs[j].args.chunks) = 0 \/ Len(invs[j].args.embeddings) = 0)
        => /\ invs[j].ret = Returned("None")
           /\ CallsOf(invs[j]) = <<>>
           /\ calls = <<>>
           /\ indexes = invs[j].pre

\* C6's case: chunks without embeddings, on a bucket that holds an index.
C6_Witness ==
    \E j \in Finished("upload_vectors") :
        /\ Len(invs[j].args.chunks) > 0
        /\ Len(invs[j].args.embeddings) = 0
        /\ invs[j].args.index_name \in DOMAIN indexes

-----------------------------------------------------------------------------
(* Properties of create_index_if_needed, checked under SpecIndex *)

\* The operations among `ops` an invocation called, in order
OpsOf(inv, ops) ==
    LET made == SelectSeq(CallsOf(inv), LAMBDA c : c.op \in ops)
    IN [k \in 1..Len(made) |-> made[k].op]

CountOp(inv, op) == Len(OpsOf(inv, {op}))

\* C3 as stated: when create_index_if_needed(name, D) has returned without
\* raising, the bucket holds an index `name` of dimension D with the cosine
\* metric, whatever the bucket held before.
C3_Original ==
    (pc = "done" /\ fn = "create_index_if_needed" /\ ret.kind = "return")
    => /\ args.index_name \in DOMAIN indexes
       /\ indexes[args.index_name].dimension = args.dimension
       /\ indexes[args.index_name].distanceMetric = "cosine"

\* C5 as stated: an invocation whose create_index call failed did not return
\* normally.
C5_Original ==
    \A j \in Finished("create_index_if_needed") :
        (\E k \in FailedCalls(invs[j]) : calls[k].op = "create_index")
        => invs[j].ret.kind # "return"

\* Invocations j and j+1 are create_index_if_needed with the same name and
\* dimension, and the index was absent when the first was entered.
TwiceSame(j) ==
    /\ j + 1 <= Len(invs)
    /\ invs[j].fn = "create_index_if_needed"
    /\ invs[j + 1].fn = "create_index_if_needed"
    /\ invs[j].args = invs[j + 1].args
    /\ invs[j].args.index_name \notin DOMAIN invs[j].pre

\* One create_index call in the two invocations together, none of it (and no
\* delete_index) in the second.
OneCreate(j) ==
    /\ CountOp(invs[j], "create_index") + CountOp(invs[j + 1], "create_index") = 1
    /\ OpsOf(invs[j + 1], {"delete_index", "create_index"}) = <<>>

\* Invocation j found the index with another dimension than it asks for.
ChangedDimension(j) ==
    /\ invs[j].fn = "create_index_if_needed"
    /\ invs[j].args.index_name \in DOMAIN invs[j].pre
    /\ invs[j].pre[invs[j].args.index_name].dimension # invs[j].args.dimension

\* One delete_index, then one create_index with the dimension asked for.
DeleteThenCreate(j) ==
    /\ OpsOf(invs[j], {"delete_index", "create_index"}) = <<"delete_index", "create_index">>
    /\ \A k \in invs[j].firstCall..invs[j].lastCall :
          /\ calls[k].op \in {"delete_index", "create_index"}
               => calls[k].indexName = invs[j].args.index_name
          /\ calls[k].op = "create_index" => calls[k].number = invs[j].args.dimension

\* Every listing an invocation received carried each index's dimension.
ListedDimensions(inv) ==
    \A k \in inv.firstCall..inv.lastCall :
        (calls[k].op = "list_indexes" /\ calls[k].outcome = "ok")
        => \A n \in DOMAIN calls[k].response : "dimension" \in DOMAIN calls[k].response[n]

-----------------------------------------------------------------------------
(* Properties of search, checked under SpecSearch *)

\* The searches that returned a result list
ReturnedSearches == {j \in Finished("search") : invs[j].ret.kind = "return"}

\* C7: a search returns at most top_k results, and no result has a greater
\* similarity than the one before it.
C7_RankedTopK ==
    \A j \in ReturnedSearches :
        LET results == invs[j].ret.value
        IN /\ Len(results) <= invs[j].args.top_k
           /\ \A k \in 1..(Len(results) - 1) :
                 results[k].similarity >= results[k + 1].similarity

\* C7's case: as many results as asked for, of falling similarity, the last
\* of them farther away than distance 1.
C7_Witness ==
    \E j \in ReturnedSearches :
        LET results == invs[j].ret.value
        IN /\ Len(results) = 3
           /\ invs[j].args.top_k = 3
           /\ results[1].similarity > results[2].similarity
           /\ results[2].similarity > results[3].similarity
           /\ calls[invs[j].lastCall].response[3].distance > 10

\* C8: the result for a match at distance d has similarity 1 - d when
\* d <= 1 and 0 when d > 1 (distances and similarities in tenths), so never
\* a negative one; and the results are the matches, one for one.
C8_Similarity ==
    \A j \in ReturnedSearches :
        LET results == invs[j].ret.value
            matches == IF invs[j].lastCall >= invs[j].firstCall
                       THEN calls[invs[j].lastCall].response ELSE <<>>
        IN /\ Len(results) = Len(matches)
           /\ \A k \in 1..Len(matches) :
                 /\ results[k].similarity =
                       IF matches[k].distance <= 10 THEN 10 - matches[k].distance ELSE 0
                 /\ results[k].similarity >= 0
                 /\ results[k].id = matches[k].key

\* C8's case: distance 0.2 gave similarity 0.8 and distance 1.5 gave 0.0.
C8_Witness ==
    \E j \in ReturnedSearches :
        LET results == invs[j].ret.value
            matches == calls[invs[j].lastCall].response
        IN /\ Len(results) = 2
           /\ invs[j].lastCall = invs[j].firstCall
           /\ matches[1].distance = 2 /\ results[1].similarity = 8
           /\ matches[2].distance = 15 /\ results[2].similarity = 0

\* The search error: RuntimeError(f"Search failed: {e}")
IsSearchError(result) == result.kind = "RuntimeError" /\ result.value = "Search failed"

\* What C9 says beside the kind of the error: a search whose query_vectors
\* call raised returned nothing and made that one call only.
NoResultsNoRetry(inv) ==
    /\ inv.ret.kind # "return"
    /\ inv.lastCall = inv.firstCall
    /\ calls[inv.firstCall].op = "query_vectors"

\* C9 as stated: every exception of the query_vectors call ends the search
\* with the search error (the RuntimeError of line 114).
C9_Original ==
    \A j \in Finished("search") :
        FailedCalls(invs[j]) # {}
        => /\ NoResultsNoRetry(invs[j])
           /\ IsSearchError(invs[j].ret)

\* C9 as amended: a ClientError of the query_vectors call ends the search
\* with the search error, any other exception of the call leaves the search
\* as it is; either way no results and no second query.
C9_SearchFails ==
    \A j \in Finished("search") :
        /\ FailedCalls(invs[j]) # {}
           => /\ NoResultsNoRetry(invs[j])
              /\ calls[invs[j].firstCall].outcome = "ClientError"
                   => IsSearchError(invs[j].ret)
              /\ calls[invs[j].firstCall].outcome # "ClientError"
                   => invs[j].ret.kind = calls[invs[j].firstCall].outcome
        /\ invs[j].ret.kind # "return" => FailedCalls(invs[j]) # {}

\* C9's case: the service answered a query of an existing index with an error.
C9_Witness ==
    \E j \in Finished("search") :
        /\ invs[j].args.index_name \in DOMAIN indexes
        /\ indexes[invs[j].args.index_name].vectors # {}
        /\ invs[j].lastCall = invs[j].firstCall
        /\ calls[invs[j].lastCall].outcome = "ClientError"
        /\ IsSearchError(invs[j].ret)

\* C10: a search with an empty or a missing (None) query vector returned the
\* empty list and made no backend call.
C10_EmptyQuery ==
    \A j \in Finished("search") :
        (invs[j].args.query_embedding \in {NoneValue, ListValue(<<>>)})
        => /\ invs[j].ret.kind = "return"
           /\ invs[j].ret.value = <<>>
           /\ CallsOf(invs[j]) = <<>>
           /\ calls = <<>>

\* C10's case: a search for None on a bucket whose index holds records.
C10_Witness ==
    \E j \in Finished("search") :
        /\ invs[j].args.query_embedding = NoneValue
        /\ invs[j].args.index_name \in DOMAIN indexes
        /\ indexes[invs[j].args.index_name].vectors # {}

-----------------------------------------------------------------------------
(* Properties of delete_index, checked under SpecTeardown *)

\* The deletion error: RuntimeError(f"Failed to delete index: {e}")
IsDeletionError(result) ==
    result.kind = "RuntimeError" /\ result.value = "Failed to delete index"

\* What C11 says beside the kind of the error: a delete_index made one
\* client.delete_index call, for the index it was given; the one that just
\* ended left the bucket as it found it when the call failed, and without the
\* index (and so without its records) when the call succeeded.
OneDeleteCall(j) ==
    /\ invs[j].lastCall = invs[j].firstCall
    /\ calls[invs[j].firstCall].op = "delete_index"
    /\ calls[invs[j].firstCall].indexName = invs[j].args.index_name
    /\ (calls[invs[j].firstCall].outcome = "ok") = (invs[j].ret.kind = "return")
    /\ (j = Len(invs) /\ pc = "done") =>
          IF calls[invs[j].firstCall].outcome = "ok"
          THEN /\ invs[j].args.index_name \notin DOMAIN indexes
               /\ \A n \in DOMAIN indexes : indexes[n] = invs[j].pre[n]
          ELSE indexes = invs[j].pre

\* C11 as stated: every failure of the call ends delete_index with the
\* deletion error (the RuntimeError of line 123).
C11_Original ==
    \A j \in Finished("delete_index") :
        /\ OneDeleteCall(j)
        /\ FailedCalls(invs[j]) # {} => IsDeletionError(invs[j].ret)

\* C11 as amended: a ClientError of the call ends delete_index with the
\* deletion error, any other exception of the call leaves it as it is.
C11_Teardown ==
    \A j \in Finished("delete_index") :
        /\ OneDeleteCall(j)
        /\ calls[invs[j].firstCall].outcome = "ClientError"
             => IsDeletionError(invs[j].ret)
        /\ calls[invs[j].firstCall].outcome = "OtherError"
             => invs[j].ret.kind = "OtherError"

\* C11's case: the deletion of an index that holds records failed and the
\* index is still there with them.
C11_Witness ==
    \E j \in Finished("delete_index") :
        /\ j = Len(invs) /\ pc = "done"
        /\ calls[invs[j].firstCall].outcome = "ClientError"
        /\ IsDeletionError(invs[j].ret)
        /\ invs[j].args.index_name \in DOMAIN indexes
        /\ indexes[invs[j].args.index_name].vectors # {}

-----------------------------------------------------------------------------
(* Properties of clean_text, checked under SpecClean *)

\* C12 as stated: what clean_text returns has no character outside
\* [A-Za-z0-9 ], no two consecutive spaces, and no whitespace at either end.
C12_Original ==
    \A j \in Finished("clean_text") :
        LET out == invs[j].ret.value
        IN /\ \A i \in 1..Len(out) : out[i] \in Alnum \cup {" "}
           /\ \A i \in 1..(Len(out) - 1) : ~(out[i] = " " /\ out[i + 1] = " ")
           /\ out # <<>> => out[1] \notin Space /\ out[Len(out)] \notin Space

\* C13 as stated: clean_text of the empty string or of None returns the
\* empty string.
C13_Original ==
    \A j \in Finished("clean_text") :
        invs[j].args.text \in {StrValue(<<>>), NoneValue}
            => invs[j].ret.kind = "return" /\ invs[j].ret.value = <<>>

\* C13 as amended: clean_text of the empty string returns the empty string
\* and clean_text of None returns the text None, the str() of its argument;
\* neither raises.
C13_Coerced ==
    \A j \in Finished("clean_text") :
        /\ invs[j].args.text = StrValue(<<>>)
             => invs[j].ret.kind = "return" /\ invs[j].ret.value = <<>>
        /\ invs[j].args.text = NoneValue
             => invs[j].ret.kind = "return"
                /\ invs[j].ret.value = <<"N", "o", "n", "e">>

\* C13's case: clean_text(None) has returned
C13_Witness ==
    \E j \in Finished("clean_text") :
        /\ invs[j].args.text = NoneValue
        /\ invs[j].ret.value = <<"N", "o", "n", "e">>

\* What C17 says replaces a match: the value of a key/value pair when it is
\* not empty, a single space otherwise
Replaced(m) == IF m.kind = "kv" /\ m.group1 # <<>> THEN m.group1 ELSE <<" ">>

\* C17: after the first substitution every match of the pattern stands in the
\* output as a single space, except a key/value pair with a value that is not
\* empty, which stands there as its value - the text between the value's
\* quotes, without the key, the colon and the quotes; the characters outside
\* the matches stand between the replacements as they were.
C17_Replacement ==
    (fn = "clean_text" /\ pc # "idle") =>
        LET s == PyStr(args.text)
            out == loc.sub.out
            ms == loc.sub.matches
            n == Len(ms)
        IN /\ \A k \in 1..n :
                /\ SubSeq(out, ms[k].at, ms[k].at + Len(Replaced(ms[k])) - 1)
                       = Replaced(ms[k])
                /\ ms[k].kind = "kv" =>
                     /\ s[ms[k].end] = QUOTE
                     /\ s[ms[k].end - Len(ms[k].group1) - 1] = QUOTE
                     /\ ms[k].group1
                          = SubSeq(s, ms[k].end - Len(ms[k].group1), ms[k].end - 1)
                     /\ \A i \in 1..Len(ms[k].group1) : ms[k].group1[i] # QUOTE
                /\ LET from == IF k = 1 THEN 1 ELSE ms[k - 1].end + 1
                       to == IF k = 1 THEN 1
                             ELSE ms[k - 1].at + Len(Replaced(ms[k - 1]))
                   IN /\ ms[k].at - to = ms[k].start - from
                      /\ SubSeq(out, to, ms[k].at - 1)
                             = SubSeq(s, from, ms[k].start - 1)
           /\ LET from == IF n = 0 THEN 1 ELSE ms[n].end + 1
                  to == IF n = 0 THEN 1 ELSE ms[n].at + Len(Replaced(ms[n]))
              IN SubSeq(out, to, Len(out)) = SubSeq(s, from, Len(s))

\* C17's case: a text with a brace, replaced by a space, and a key/value pair
\* whose value holds a symbol, replaced by that value
C17_Witness ==
    /\ fn = "clean_text" /\ pc = "clean_collapse"
    /\ \E k \in 1..Len(loc.sub.matches) : loc.sub.matches[k].kind = "structural"
    /\ \E k \in 1..Len(loc.sub.matches) :
         /\ loc.sub.matches[k].kind = "kv"
         /\ \E i \in 1..Len(loc.sub.matches[k].group1) :
              loc.sub.matches[k].group1[i] = "@"
    /\ \E i \in 1..Len(loc.sub.out) : loc.sub.out[i] = "@"

-----------------------------------------------------------------------------
(* Properties of create_chunks, checked under SpecChunks *)

IsConfigurationError(result) == result.kind = "ValueError"

\* C14 as stated: create_chunks with an overlap of at least the chunk size
\* ends with a configuration error, the overlap equal to the size included.
C14_Original ==
    \A j \in Finished("create_chunks") :
        invs[j].args.chunk_overlap >= invs[j].args.chunk_size
            => IsConfigurationError(invs[j].ret)

\* C14 as amended: create_chunks with an overlap greater than the chunk size
\* ends with a configuration error and no chunks; with an overlap equal to
\* the chunk size it raises nothing and returns the list of chunks.
C14_OverlapAboveSize ==
    \A j \in Finished("create_chunks") :
        /\ invs[j].args.chunk_overlap > invs[j].args.chunk_size
             => IsConfigurationError(invs[j].ret)
        /\ invs[j].args.chunk_overlap = invs[j].args.chunk_size
             => invs[j].ret.kind = "return"

\* C14's cases: the overlap above the size was refused; the overlap equal to
\* the size gave chunks
C14_Witness ==
    \E j \in Finished("create_chunks") :
        /\ invs[j].args.chunk_overlap = invs[j].args.chunk_size
        /\ invs[j].ret.kind = "return"
        /\ Len(invs[j].ret.value) > 1

\* C15: with 0 <= O < S every chunk create_chunks returns is at most S long.
C15_ChunkLength ==
    \A j \in Finished("create_chunks") :
        (invs[j].args.chunk_overlap < invs[j].args.chunk_size)
            => /\ invs[j].ret.kind = "return"
               /\ \A c \in 1..Len(invs[j].ret.value) :
                    Len(invs[j].ret.value[c]) <= invs[j].args.chunk_size

\* C15's case: a single word longer than S was cut into chunks
C15_Witness ==
    \E j \in Finished("create_chunks") :
        /\ invs[j].args.chunk_overlap < invs[j].args.chunk_size
        /\ invs[j].args.chunk_overlap > 0
        /\ Len(invs[j].args.text) > invs[j].args.chunk_size
        /\ \A i \in 1..Len(invs[j].args.text) : invs[j].args.text[i] # " "
        /\ invs[j].ret.kind = "return"
        /\ Len(invs[j].ret.value) > 1

\* C16 as stated: a text no longer than S comes back as exactly one chunk,
\* the text itself.
C16_Original ==
    \A j \in Finished("create_chunks") :
        (/\ Len(invs[j].args.text) <= invs[j].args.chunk_size
         /\ invs[j].ret.kind = "return")
            => invs[j].ret.value = <<invs[j].args.text>>

\* C16 as amended: a text that is not empty and no longer than S comes back
\* as exactly one chunk, the text itself; the empty text comes back as no
\* chunk at all.
C16_OneChunk ==
    \A j \in Finished("create_chunks") :
        (/\ Len(invs[j].args.text) <= invs[j].args.chunk_size
         /\ invs[j].ret.kind = "return")
            => invs[j].ret.value
                 = IF invs[j].args.text = <<>> THEN <<>> ELSE <<invs[j].args.text>>

\* C16's case: a text of two words, exactly S long, with an overlap asked for
C16_Witness ==
    \E j \in Finished("create_chunks") :
        /\ Len(invs[j].args.text) = invs[j].args.chunk_size
        /\ invs[j].args.chunk_overlap > 0
        /\ \E i \in 1..Len(invs[j].args.text) : invs[j].args.text[i] = " "
        /\ invs[j].ret.kind = "return"
        /\ invs[j].ret.value = <<invs[j].args.text>>

-----------------------------------------------------------------------------
(* More properties of create_index_if_needed, checked under SpecIndex *)

\* C18: create_index_if_needed returns without raising whatever the
\* list_indexes call and the delete_index call before the creation did, and a
\* failed delete_index is followed by the create_index call for the index and
\* the dimension asked for.
C18_BestEffort ==
    \A j \in Finished("create_index_if_needed") :
        /\ invs[j].ret.kind = "return"
        /\ \A k \in invs[j].firstCall..invs[j].lastCall :
             (calls[k].op = "delete_index" /\ calls[k].outcome # "ok")
                => /\ k < invs[j].lastCall
                   /\ calls[k + 1].op = "create_index"
                   /\ calls[k + 1].indexName = invs[j].args.index_name
                   /\ calls[k + 1].number = invs[j].args.dimension

\* C18's case: the delete_index call failed, create_index was called with the
\* dimension asked for, and the function returned
C18_Witness ==
    \E j \in Finished("create_index_if_needed") :
        /\ invs[j].ret.kind = "return"
        /\ invs[j].lastCall = invs[j].firstCall + 2
        /\ calls[invs[j].firstCall + 1].op = "delete_index"
        /\ calls[invs[j].firstCall + 1].outcome = "ClientError"
        /\ calls[invs[j].lastCall].op = "create_index"
        /\ calls[invs[j].lastCall].number = invs[j].args.dimension

-----------------------------------------------------------------------------
(* More properties of upload_vectors, checked under SpecUpload *)

\* The records an upload submitted, batch after batch
Submitted(inv) == Concat([k \in 1..Len(CallsOf(inv)) |-> CallsOf(inv)[k].vectors])

\* C19: the records an upload submitted are, in the order of submission, the
\* records of positions 0, 1, 2, ...: the one of position i has chunk i as its
\* text, embedding i as its vector and i as its chunk_index; when no call
\* failed there is one record for every chunk/embedding pair, none missing
\* and none sent twice.
C19_OrderAndPairing ==
    \A j \in Finished("upload_vectors") :
        ~EmptyInput(invs[j].args.chunks, invs[j].args.embeddings) =>
            LET sent == Submitted(invs[j])
            IN /\ \A i \in 1..Len(sent) :
                    /\ sent[i].metadata.text = invs[j].args.chunks[i]
                    /\ sent[i].data = invs[j].args.embeddings[i]
                    /\ sent[i].metadata.chunk_index = i - 1
               /\ FailedCalls(invs[j]) = {} =>
                    Len(sent) = Min(Len(invs[j].args.chunks),
                                    Len(invs[j].args.embeddings))

\* C19's case: an upload of 801 pairs went through in three batches
C19_Witness ==
    \E j \in Finished("upload_vectors") :
        /\ Len(invs[j].args.chunks) = 801
        /\ Len(invs[j].args.embeddings) = 801
        /\ FailedCalls(invs[j]) = {}
        /\ Len(CallsOf(invs[j])) = 3
        /\ Len(Submitted(invs[j])) = 801
        /\ Submitted(invs[j])[801].metadata.chunk_index = 800

-----------------------------------------------------------------------------
(* Properties of main, checked under SpecMain *)

\* The stages of the pipeline, as the functions main calls
StageOrder == <<"create_index_if_needed", "upload_vectors", "search", "delete_index">>

\* The calls of main's functions that have ended, in order
Stages == SelectSeq(invs, LAMBDA v : v.fn # "main")

\* C20: the functions main has called are, in order, a prefix of
\* ensure-index, upload, search, teardown, each entered only after the one
\* before it returned without raising, and their backend calls follow each
\* other in the log; once upload_vectors or search has raised, no function is
\* called any more, no delete_index call reaches the backend and every batch
\* that was written is in the index.
C20_StageOrder ==
    frame.stage # "none" =>
        LET done == Stages
            running == IF pc \in {"idle", "done"} THEN 0 ELSE 1
        IN /\ Len(done) + running <= Len(StageOrder)
           /\ running = 1 => fn = StageOrder[Len(done) + 1]
           /\ \A k \in 1..Len(done) :
                /\ done[k].fn = StageOrder[k]
                /\ k > 1 => /\ done[k - 1].ret.kind = "return"
                            /\ done[k].firstCall = done[k - 1].lastCall + 1
                /\ (k = Len(done) /\ running = 1) => done[k].ret.kind = "return"
           /\ \A k \in 1..Len(done) :
                (done[k].fn \in {"upload_vectors", "search"}
                 /\ done[k].ret.kind # "return")
                => /\ k = Len(done) /\ running = 0
                   /\ \A c \in (done[1].lastCall + 1)..Len(calls) :
                        /\ calls[c].op # "delete_index"
                        /\ (calls[c].op = "put_vectors" /\ calls[c].outcome = "ok")
                             => \A i \in 1..Len(calls[c].vectors) :
                                  calls[c].vectors[i] \in StoredIn(MainIndex)

\* C20's case: the second batch of the upload failed and main has ended; the
\* first batch is in the index and nothing was deleted after ensure-index
C20_Witness ==
    /\ frame.stage = "ended"
    /\ Len(Stages) = 2
    /\ Stages[2].fn = "upload_vectors"
    /\ Stages[2].ret.kind = "RuntimeError"
    /\ Stages[2].lastCall = Stages[2].firstCall + 1
    /\ Cardinality(StoredIn(MainIndex)) >= batch_size
    /\ \A c \in Stages[2].firstCall..Len(calls) : calls[c].op # "delete_index"

-----------------------------------------------------------------------------
(* The keys of an upload, checked under SpecUpload *)

\* The bounded hash in the key of a chunk
BoundedHash(chunk) == Abs(PyHash(chunk)) % HashMod

\* C21: the records an upload submitted have pairwise distinct keys, and an
\* upload with no failed call into an index that held nothing has left one
\* stored record for every record it submitted: none overwrote another.
C21_DistinctKeys ==
    \A j \in Finished("upload_vectors") :
        ~EmptyInput(invs[j].args.chunks, invs[j].args.embeddings) =>
            LET sent == Submitted(invs[j])
            IN /\ Cardinality({sent[i].key : i \in 1..Len(sent)}) = Len(sent)
               /\ (/\ j = Len(invs) /\ pc = "done"
                   /\ FailedCalls(invs[j]) = {}
                   /\ invs[j].pre[invs[j].args.index_name].vectors = {})
                    => Cardinality(StoredIn(invs[j].args.index_name)) = Len(sent)

\* C21's case: an upload of more than a batch went through with chunks of
\* the same text and chunks of different texts with the same bounded hash
C21_Witness ==
    \E j \in Finished("upload_vectors") :
        /\ j = Len(invs) /\ pc = "done"
        /\ FailedCalls(invs[j]) = {}
        /\ Len(Submitted(invs[j])) > batch_size
        /\ invs[j].args.chunks[1] = invs[j].args.chunks[1 + NumTexts]
        /\ invs[j].args.chunks[1] # invs[j].args.chunks[2]
        /\ BoundedHash(invs[j].args.chunks[1]) = BoundedHash(invs[j].args.chunks[2])
        /\ Cardinality(StoredIn(invs[j].args.index_name)) = Len(Submitted(invs[j]))

-----------------------------------------------------------------------------
(* Properties of the chatbot loop, checked under SpecChat *)

\* Every tool call of every AI response in the history has a ToolMessage
\* with its id later in the history
WellFormed(messages) ==
    \A i \in 1..Len(messages) :
        messages[i].type = "ai" =>
            \A c \in 1..Len(messages[i].tool_calls) :
                \E j \in (i + 1)..Len(messages) :
                    /\ messages[j].type = "tool"
                    /\ messages[j].tool_call_id = messages[i].tool_calls[c]

\* C22 as stated: whenever the model is about to be invoked (lines 40 and
\* 48), the history it is given is well-formed.
C22_Original ==
    (fn = "chatbot" /\ pc \in {"chat_invoke", "chat_final_invoke"})
        => WellFormed(loc.messages)

=============================================================================
